---- MODULE Spec2Model ----
(***************************************************************************)
(* Model of src/main.py: the webhook's sequential loop over the files of   *)
(* a batch, the format dispatch, the per-document fan-out of page          *)
(* pipelines (asyncio.gather inside asyncio.run), the two-stage page       *)
(* pipeline and the two module-level asyncio semaphores SEM_FLASH and      *)
(* SEM_PRO.                                                                *)
(*                                                                         *)
(* Texts are sequences of tokens (strings).  The semaphores follow         *)
(* asyncio.Semaphore of CPython >= 3.10: a counter, a FIFO deque of        *)
(* waiters, and the event loop the semaphore binds to the first time a     *)
(* caller has to wait (_LoopBoundMixin._get_loop).  Every asyncio.run of   *)
(* the webhook creates a new event loop; the loop of file k is named k.    *)
(***************************************************************************)
EXTENDS Integers, Sequences, FiniteSets, TLC

\* ---- bounds of the model ------------------------------------------------
\* entries in one batch descriptor
MaxFiles == 2
\* pages rendered from one PDF
MaxPages == 3
\* page pipelines launched in one request (PDF pages and images)
MaxPipelines == 4
\* capacity of SEM_FLASH (50 in main.py:28), scaled so that a document can exceed it
FlashCapacity == 2
\* capacity of SEM_PRO (40 in main.py:30), scaled likewise, smaller than FlashCapacity
ProCapacity == 1

VARIABLES
    SEM_FLASH,        \* [value, waiters, loop]: transcription limiter
    SEM_PRO,          \* [value, waiters, loop]: correction limiter
    wpc,              \* position of webhook(): "loop","routed","running","returned","raised","done"
    nfiles,           \* len(data['files'])
    idx,              \* 1-based index of the batch entry being handled
    cur,              \* [mime, url] of the downloaded file, NoFile otherwise
    route,            \* branch of the dispatch chain taken for the current file
    total,            \* number of page pipelines launched in the running event loop
    pc,               \* pc[t]: position of page task t
    raw_text,         \* raw_text[t]: local raw_text of task t
    result,           \* result[t]: value returned by task t, NoResult before
    audio,            \* position of process_audio: "none","call","done"
    processed_text,   \* value returned by asyncio.run(...) / local extraction
    excmsg,           \* message of the exception that reached the batch loop
    final_report,     \* list of report lines
    files_processed,
    total_pages,
    response,         \* JSON body returned by webhook(), NoResponse before
    calls1,           \* calls1[t]: transcription calls issued by task t
    calls2,           \* calls2[t]: correction calls issued by task t
    proAcquired,      \* proAcquired[t]: task t has held a correction permit
    returned2,        \* returned2[t]: text the correction service returned to task t
    stage1,           \* stage1[t]: outcome of Stage 1 of task t: "none","ok","failed"
    stage2,           \* stage2[t]: outcome of Stage 2 of task t: "none","ok","failed"
    rendered,         \* pages handed to page pipelines so far in this request
    delays,           \* delays[t]: pacing sleeps task t has started
    log,              \* one record per batch entry already handled: what happened to it
    drive             \* (file_id, drive_link) returned by save_to_drive, NotSaved before

vars == <<SEM_FLASH, SEM_PRO, wpc, nfiles, idx, cur, route, total, pc, raw_text,
          result, audio, processed_text, excmsg, final_report, files_processed,
          total_pages, response, calls1, calls2, proAcquired, returned2, stage1, stage2, rendered,
          delays, log, drive>>

Tasks == 1..MaxPages

NoResult == <<0, <<"-">>>>
NoFile == [mime |-> <<"-">>, url |-> <<"-">>]
NoResponse == [status |-> 0]
NoText == <<"-">>
NotSaved == [id |-> "-", link |-> "-"]

\* ---- environment: what the remote services and the network may answer ----
\* texts the transcription service may return (response.text): the empty
\* text, and the text of a page that itself prints a line starting like the
\* section headers of process_pdf
RawTexts == {<<>>, <<"petitiuner\n", "--- PAGE", " 2 of 9 ---">>}
\* texts the correction service may return
CorrectedTexts == {<<"Petitioner">>}
\* str(e) of an exception raised by a remote call or by a local library call
Msgs == {"boom"}
\* str(e) of the RuntimeError raised by _LoopBoundMixin._get_loop
LoopErr == "is bound to a different event loop"

\* declared content types (Content-Type header), as token sequences
Mimes == { <<"application/", "pdf">>,
           <<"image/png">>,
           <<"image/jpeg">>,
           <<"audio/", "mpeg">>,
           <<"video/", "mp4">>,
           <<"application/vnd.openxmlformats-officedocument.", "wordprocessingml", ".document">>,
           <<"text/plain", "; charset=utf-8">>,
           <<"Application/", "PDF">>,
           <<"application/octet-stream">>,
           <<>> }
\* URLs, as token sequences whose last token is the suffix
Urls == { <<"http://h/f", ".pdf">>, <<"http://h/f", ".PDF">>, <<"http://h/f", ".docx">>,
          <<"http://h/f", ".txt">>, <<"http://h/f", ".xyz">>, <<"http://h/f", ".png">> }

\* str.lower() on the tokens that have upper-case letters
Lower(tok) ==
    CASE tok = "Application/" -> "application/"
      [] tok = "PDF" -> "pdf"
      [] tok = ".PDF" -> ".pdf"
      [] OTHER -> tok

\* `sub in s.lower()` for a token sub
Contains(sub, s) == \E i \in 1..Len(s) : Lower(s[i]) = sub

\* s.lower().endswith(suffix)
EndsWith(s, suffix) == Len(s) > 0 /\ Lower(s[Len(s)]) = suffix

\* ---- asyncio.Semaphore ----------------------------------------------------
NewSemaphore(n) == [value |-> n, waiters |-> <<>>, loop |-> 0]

\* a limiter that admits every caller
LockedNever(s) == FALSE

\* Semaphore.locked(): waiters leave the deque when cancelled or resumed
Locked(s) == s.value = 0 \/ s.waiters # <<>>

\* _get_loop(): bind to the running loop if unbound
Bind(s, l) == IF s.loop = 0 THEN [s EXCEPT !.loop = l] ELSE s

\* _get_loop() raises when the semaphore is bound to another loop
WrongLoop(s, l) == Bind(s, l).loop # l

\* index of the first waiter whose future is not done, 0 if none
RECURSIVE FirstPending(_, _, _, _)
FirstPending(w, pcs, waitState, i) ==
    IF i > Len(w) THEN 0
    ELSE IF pcs[w[i]] = waitState THEN i
    ELSE FirstPending(w, pcs, waitState, i + 1)

RemoveFrom(w, t) == SelectSeq(w, LAMBDA x : x # t)

\* release(): increment the counter, then _wake_up_next() hands the permit to
\* the first waiter whose future is not done
WakeUpNext(s, pcs, waitState, grantState) ==
    LET i == FirstPending(s.waiters, pcs, waitState, 1) IN
    IF i = 0 THEN [sem |-> s, pc |-> pcs]
    ELSE [sem |-> [s EXCEPT !.value = @ - 1],
          pc  |-> [pcs EXCEPT ![s.waiters[i]] = grantState]]

\* a release that gives the permit back to nobody
ReleaseLeaks(s, pcs, waitState, grantState) == [sem |-> s, pc |-> pcs]

Release(s, pcs, waitState, grantState) ==
    WakeUpNext([s EXCEPT !.value = @ + 1], pcs, waitState, grantState)

\* acquire() up to its first suspension: the fast path takes a permit, the
\* slow path binds the semaphore to the running loop l and queues task t, or
\* raises RuntimeError when the semaphore is bound to another loop
Acquire(s, t, l) ==
    IF ~Locked(s) THEN [st |-> "got", sem |-> [s EXCEPT !.value = @ - 1]]
    ELSE IF WrongLoop(s, l) THEN [st |-> "raise", sem |-> s]
    ELSE [st |-> "wait", sem |-> [Bind(s, l) EXCEPT !.waiters = Append(@, t)]]

\* acquire() after its future was resolved: leave the deque and pass on a
\* permit that is still free
Resumed(s, pcs, t, waitState, grantState) ==
    LET s1 == [s EXCEPT !.waiters = RemoveFrom(@, t)] IN
    IF s1.value > 0 THEN WakeUpNext(s1, pcs, waitState, grantState)
    ELSE [sem |-> s1, pc |-> pcs]

\* ---- process_page_pipeline -------------------------------------------------
\* page numbers that start at 0
PageNumZeroBased(t) == t - 1

\* page number passed to task t: enumerate index i = t - 1, page_num = i + 1
PageNum(t) == (t - 1) + 1

\* a Stage 1 failure text without its annotation
Stage1ErrorUnmarked(m) == <<m>>

\* f"[Stage 1 Error]: {str(e)}"
Stage1Error(m) == <<"[Stage 1 Error]: ", m>>

\* a fallback that keeps the annotation only
Stage2FallbackLosesRaw(raw, m) == <<"\n[Stage 2 skipped due to error: ", m, "]">>

Stage2Fallback(raw, m) == raw \o <<"\n[Stage 2 skipped due to error: ", m, "]">>

NoneCreated == \A u \in Tasks : pc[u] # "created"

\* a pacing sleep that is taken whether or not the permit is held
PacingSleepAlways(d, t, held) == [d EXCEPT ![t] = @ + 1]

\* `await asyncio.sleep(0.5)` is the first statement inside `async with
\* SEM_PRO`: task t starts it once the permit is held, not before
PacingSleep(d, t, held) == IF held THEN [d EXCEPT ![t] = @ + 1] ELSE d

\* body of `async with SEM_FLASH` once the permit is held: re-encode the
\* image, then issue the transcription call; a failing image.save is caught
\* by the same except clause as a failing call
Stage1Body(t, sem, pcs) ==
    \E encOk \in BOOLEAN, m \in Msgs :
        IF encOk
        THEN /\ SEM_FLASH' = sem
             /\ pc' = [pcs EXCEPT ![t] = "stage1"]
             /\ calls1' = [calls1 EXCEPT ![t] = @ + 1]
             /\ UNCHANGED <<result, stage1>>
        ELSE LET r == Release(sem, pcs, "wait_flash", "granted_flash") IN
             /\ SEM_FLASH' = r.sem
             /\ pc' = [r.pc EXCEPT ![t] = "done"]
             /\ result' = [result EXCEPT ![t] = <<PageNum(t), Stage1Error(m)>>]
             /\ stage1' = [stage1 EXCEPT ![t] = "failed"]
             /\ UNCHANGED calls1

\* first step of task t; the tasks created by gather() run their first step
\* in creation order before the loop handles any completion
StartTask(t) ==
    /\ wpc = "running"
    /\ pc[t] = "created"
    /\ \A u \in Tasks : u < t => pc[u] # "created"
    /\ LET a == Acquire(SEM_FLASH, t, idx) IN
       IF a.st = "got" THEN Stage1Body(t, a.sem, pc)
       ELSE /\ SEM_FLASH' = a.sem
            /\ pc' = [pc EXCEPT ![t] = IF a.st = "wait" THEN "wait_flash" ELSE "raised"]
            /\ UNCHANGED <<result, stage1, calls1>>
    /\ UNCHANGED <<drive, delays, log, rendered, SEM_PRO, wpc, nfiles, idx, cur, route, total, raw_text, audio,
                   processed_text, excmsg, final_report, files_processed, total_pages,
                   response, calls2, proAcquired, returned2, stage2>>

\* task t resumes inside SEM_FLASH.acquire() after release() resolved its future
ResumeFlash(t) ==
    /\ wpc = "running"
    /\ pc[t] = "granted_flash"
    /\ LET r == Resumed(SEM_FLASH, pc, t, "wait_flash", "granted_flash") IN
       Stage1Body(t, r.sem, r.pc)
    /\ UNCHANGED <<drive, delays, log, rendered, SEM_PRO, wpc, nfiles, idx, cur, route, total, raw_text, audio,
                   processed_text, excmsg, final_report, files_processed, total_pages,
                   response, calls2, proAcquired, returned2, stage2>>

\* a Stage 1 failure that does not return and goes on to Stage 2
Stage1FailFallsThrough(t) ==
    /\ wpc = "running" /\ NoneCreated
    /\ pc[t] = "stage1"
    /\ LET r == Release(SEM_FLASH, pc, "wait_flash", "granted_flash")
           a == Acquire(SEM_PRO, t, idx)
       IN
        /\ SEM_FLASH' = r.sem
        /\ SEM_PRO' = a.sem
        /\ pc' = [r.pc EXCEPT ![t] = CASE a.st = "got" -> "pacing"
                                        [] a.st = "wait" -> "wait_pro"
                                        [] OTHER -> "raised"]
        /\ proAcquired' = [proAcquired EXCEPT ![t] = (a.st = "got")]
        /\ delays' = PacingSleep(delays, t, a.st = "got")
    /\ stage1' = [stage1 EXCEPT ![t] = "failed"]
    /\ UNCHANGED <<drive, log, rendered, wpc, nfiles, idx, cur, route, total, raw_text, result, audio,
                   processed_text, excmsg, final_report, files_processed, total_pages,
                   response, calls1, calls2, returned2, stage2>>

\* the transcription call of task t raises: the page result is the error annotation
Stage1Fail(t) ==
    /\ wpc = "running" /\ NoneCreated
    /\ pc[t] = "stage1"
    /\ \E m \in Msgs :
        LET r == Release(SEM_FLASH, pc, "wait_flash", "granted_flash") IN
        /\ SEM_FLASH' = r.sem
        /\ pc' = [r.pc EXCEPT ![t] = "done"]
        /\ result' = [result EXCEPT ![t] = <<PageNum(t), Stage1Error(m)>>]
        /\ stage1' = [stage1 EXCEPT ![t] = "failed"]
    /\ UNCHANGED <<drive, delays, log, rendered, SEM_PRO, wpc, nfiles, idx, cur, route, total, raw_text, audio,
                   processed_text, excmsg, final_report, files_processed, total_pages,
                   response, calls1, calls2, proAcquired, returned2, stage2>>

\* a pipeline that enters SEM_PRO while still inside `async with SEM_FLASH`
Stage1OkKeepsFlash(t) ==
    /\ wpc = "running" /\ NoneCreated
    /\ pc[t] = "stage1"
    /\ \E txt \in RawTexts :
        LET a == Acquire(SEM_PRO, t, idx) IN
        /\ raw_text' = [raw_text EXCEPT ![t] = txt]
        /\ stage1' = [stage1 EXCEPT ![t] = "ok"]
        /\ SEM_PRO' = a.sem
        /\ pc' = [pc EXCEPT ![t] = CASE a.st = "got" -> "pacing"
                                      [] a.st = "wait" -> "wait_pro"
                                      [] OTHER -> "raised"]
        /\ proAcquired' = [proAcquired EXCEPT ![t] = (a.st = "got")]
        /\ delays' = PacingSleep(delays, t, a.st = "got")
    /\ UNCHANGED <<drive, log, rendered, SEM_FLASH, wpc, nfiles, idx, cur, route, total, result,
                   audio, processed_text, excmsg, final_report, files_processed, total_pages,
                   response, calls1, calls2, returned2, stage2>>

\* the transcription call of task t returns: leave SEM_FLASH, enter SEM_PRO
Stage1Ok(t) ==
    /\ wpc = "running" /\ NoneCreated
    /\ pc[t] = "stage1"
    /\ \E txt \in RawTexts :
        LET r == Release(SEM_FLASH, pc, "wait_flash", "granted_flash")
            a == Acquire(SEM_PRO, t, idx)
        IN
        /\ raw_text' = [raw_text EXCEPT ![t] = txt]
        /\ stage1' = [stage1 EXCEPT ![t] = "ok"]
        /\ SEM_FLASH' = r.sem
        /\ SEM_PRO' = a.sem
        /\ pc' = [r.pc EXCEPT ![t] = CASE a.st = "got" -> "pacing"
                                        [] a.st = "wait" -> "wait_pro"
                                        [] OTHER -> "raised"]
        /\ proAcquired' = [proAcquired EXCEPT ![t] = (a.st = "got")]
        /\ delays' = PacingSleep(delays, t, a.st = "got")
    /\ UNCHANGED <<drive, log, rendered, wpc, nfiles, idx, cur, route, total, result, audio,
                   processed_text, excmsg, final_report, files_processed, total_pages,
                   response, calls1, calls2, returned2, stage2>>

\* task t resumes inside SEM_PRO.acquire() and starts the pacing sleep
ResumePro(t) ==
    /\ wpc = "running"
    /\ pc[t] = "granted_pro"
    /\ LET r == Resumed(SEM_PRO, pc, t, "wait_pro", "granted_pro") IN
        /\ SEM_PRO' = r.sem
        /\ pc' = [r.pc EXCEPT ![t] = "pacing"]
    /\ proAcquired' = [proAcquired EXCEPT ![t] = TRUE]
    /\ delays' = PacingSleep(delays, t, TRUE)
    /\ UNCHANGED <<drive, log, rendered, SEM_FLASH, wpc, nfiles, idx, cur, route, total, raw_text, result, audio,
                   processed_text, excmsg, final_report, files_processed, total_pages,
                   response, calls1, calls2, returned2, stage1, stage2>>

\* asyncio.sleep(0.5) is over: task t issues the correction call
PacingDone(t) ==
    /\ wpc = "running"
    /\ pc[t] = "pacing"
    /\ pc' = [pc EXCEPT ![t] = "stage2"]
    /\ calls2' = [calls2 EXCEPT ![t] = @ + 1]
    /\ UNCHANGED <<drive, delays, log, SEM_FLASH, SEM_PRO, wpc, nfiles, idx, cur, route, total, raw_text, result,
                   audio, processed_text, excmsg, final_report, files_processed, total_pages,
                   response, calls1, proAcquired, returned2, stage1, stage2, rendered>>

\* the correction call of task t returns its text
Stage2Ok(t) ==
    /\ wpc = "running"
    /\ pc[t] = "stage2"
    /\ \E txt \in CorrectedTexts :
        LET r == Release(SEM_PRO, pc, "wait_pro", "granted_pro") IN
        /\ SEM_PRO' = r.sem
        /\ pc' = [r.pc EXCEPT ![t] = "done"]
        /\ returned2' = [returned2 EXCEPT ![t] = txt]
        /\ result' = [result EXCEPT ![t] = <<PageNum(t), txt>>]
    /\ stage2' = [stage2 EXCEPT ![t] = "ok"]
    /\ UNCHANGED <<drive, delays, log, rendered, SEM_FLASH, wpc, nfiles, idx, cur, route, total, raw_text, audio,
                   processed_text, excmsg, final_report, files_processed, total_pages,
                   response, calls1, calls2, proAcquired, stage1>>

\* a Stage 2 failure that is retried once before falling back
Stage2FailRetries(t) ==
    /\ wpc = "running"
    /\ pc[t] = "stage2"
    /\ IF calls2[t] < 2
       THEN /\ calls2' = [calls2 EXCEPT ![t] = @ + 1]
            /\ UNCHANGED <<SEM_PRO, pc, result, stage2>>
       ELSE \E m \in Msgs :
            LET r == Release(SEM_PRO, pc, "wait_pro", "granted_pro") IN
            /\ SEM_PRO' = r.sem
            /\ pc' = [r.pc EXCEPT ![t] = "done"]
            /\ result' = [result EXCEPT ![t] = <<PageNum(t), Stage2Fallback(raw_text[t], m)>>]
            /\ stage2' = [stage2 EXCEPT ![t] = "failed"]
            /\ UNCHANGED calls2
    /\ UNCHANGED <<drive, delays, log, SEM_FLASH, wpc, nfiles, idx, cur, route, total, raw_text, audio,
                   processed_text, excmsg, final_report, files_processed, total_pages,
                   response, calls1, proAcquired, returned2, stage1, rendered>>

\* the correction call of task t raises: fall back to the raw text
Stage2Fail(t) ==
    /\ wpc = "running"
    /\ pc[t] = "stage2"
    /\ \E m \in Msgs :
        LET r == Release(SEM_PRO, pc, "wait_pro", "granted_pro") IN
        /\ SEM_PRO' = r.sem
        /\ pc' = [r.pc EXCEPT ![t] = "done"]
        /\ result' = [result EXCEPT ![t] = <<PageNum(t), Stage2Fallback(raw_text[t], m)>>]
    /\ stage2' = [stage2 EXCEPT ![t] = "failed"]
    /\ UNCHANGED <<drive, delays, log, SEM_FLASH, wpc, nfiles, idx, cur, route, total, raw_text, audio,
                   processed_text, excmsg, final_report, files_processed, total_pages,
                   response, calls1, calls2, proAcquired, returned2, stage1, rendered>>

\* ---- process_pdf -----------------------------------------------------------
\* list.sort(key=lambda x: x[0]): stable insertion by page number
RECURSIVE InsertByPage(_, _)
InsertByPage(r, s) ==
    IF s = <<>> THEN <<r>>
    ELSE IF r[1] < Head(s)[1] THEN <<r>> \o s
    ELSE <<Head(s)>> \o InsertByPage(r, Tail(s))

RECURSIVE SortByPage(_)
SortByPage(s) ==
    IF s = <<>> THEN <<>>
    ELSE InsertByPage(s[Len(s)], SortByPage(SubSeq(s, 1, Len(s) - 1)))

\* f"--- PAGE {r[0]} ---\n{r[1]}"
Section(r) == <<"--- PAGE", ToString(r[1]), " ---\n">> \o r[2]

\* "\n".join(parts)
RECURSIVE JoinLines(_)
JoinLines(parts) ==
    IF parts = <<>> THEN <<>>
    ELSE IF Len(parts) = 1 THEN parts[1]
    ELSE parts[1] \o <<"\n">> \o JoinLines(Tail(parts))

\* a gather that drops the results of the pages whose Stage 1 failed
GatheredDropsFailed ==
    SelectSeq([t \in 1..total |-> result[t]], LAMBDA r : stage1[r[1]] # "failed")

\* asyncio.gather(*tasks): the results in the order of the tasks
Gathered == [t \in 1..total |-> result[t]]

\* the text process_pdf returns for the gathered results
PdfText(results) ==
    LET sorted == SortByPage(results) IN
    JoinLines([i \in 1..Len(sorted) |-> Section(sorted[i])])

\* str.count(tok)
Count(tok, text) == Cardinality({i \in 1..Len(text) : text[i] = tok})

\* a wait that ends with the first page that returns
AnyDone == \E t \in 1..total : pc[t] = "done"

\* gather() is complete once every task has returned
AllDone == \A t \in 1..total : pc[t] = "done"

\* process_pdf resumes after gather(), sorts, joins and returns; asyncio.run returns
GatherReturn ==
    /\ wpc = "running" /\ route = "pdf"
    /\ AllDone
    /\ processed_text' = PdfText(Gathered)
    /\ wpc' = "returned"
    /\ UNCHANGED <<drive, delays, log, SEM_FLASH, SEM_PRO, nfiles, idx, cur, route, total, pc, raw_text, result,
                   audio, excmsg, final_report, files_processed, total_pages, response,
                   calls1, calls2, proAcquired, returned2, stage1, stage2, rendered>>

\* permits a semaphore gets back when every unfinished task of the loop is cancelled
Holders(states) == Cardinality({t \in Tasks : pc[t] \in states})

CancelAll(s, held) == [s EXCEPT !.value = @ + held, !.waiters = <<>>]

Unfinished == {"wait_flash", "granted_flash", "stage1", "wait_pro", "granted_pro",
               "pacing", "stage2"}

\* a run that ends with the exception and leaves the other tasks running
GatherRaiseLeavesTasks ==
    /\ wpc = "running" /\ route = "pdf"
    /\ NoneCreated
    /\ \E t \in 1..total : pc[t] = "raised"
    /\ excmsg' = LoopErr
    /\ wpc' = "raised"
    /\ UNCHANGED <<drive, delays, log, SEM_FLASH, SEM_PRO, pc, nfiles, idx, cur, route, total,
                   raw_text, result, audio, processed_text,
                   final_report, files_processed, total_pages, response,
                   calls1, calls2, proAcquired, returned2, stage1, stage2, rendered>>

\* a task raised RuntimeError out of `async with`: gather() re-raises it in
\* process_pdf, asyncio.run cancels the tasks still running (CancelledError
\* leaves every `async with`, releasing its permit) and re-raises
GatherRaise ==
    /\ wpc = "running" /\ route = "pdf"
    /\ NoneCreated
    /\ \E t \in 1..total : pc[t] = "raised"
    /\ SEM_FLASH' = CancelAll(SEM_FLASH, Holders({"granted_flash", "stage1"}))
    /\ SEM_PRO' = CancelAll(SEM_PRO, Holders({"granted_pro", "pacing", "stage2"}))
    /\ pc' = [t \in Tasks |-> IF pc[t] \in Unfinished THEN "cancelled" ELSE pc[t]]
    /\ excmsg' = LoopErr
    /\ wpc' = "raised"
    /\ UNCHANGED <<drive, delays, log, nfiles, idx, cur, route, total, raw_text, result, audio, processed_text,
                   final_report, files_processed, total_pages, response,
                   calls1, calls2, proAcquired, returned2, stage1, stage2, rendered>>

\* ---- process_image -----------------------------------------------------------
\* the single pipeline awaited by process_image is over: its text is returned,
\* an exception out of it becomes the image error text
ImageReturn ==
    /\ wpc = "running" /\ route = "image"
    /\ pc[1] \in {"done", "raised"}
    /\ processed_text' = IF pc[1] = "done" THEN result[1][2]
                         ELSE <<"[Image Processing Error]: ", LoopErr>>
    /\ wpc' = "returned"
    /\ UNCHANGED <<drive, delays, log, SEM_FLASH, SEM_PRO, nfiles, idx, cur, route, total, pc, raw_text, result,
                   audio, excmsg, final_report, files_processed, total_pages, response,
                   calls1, calls2, proAcquired, returned2, stage1, stage2, rendered>>

\* ---- process_audio -----------------------------------------------------------
\* an audio call whose exception leaves process_audio
AudioReturnRaises ==
    /\ wpc = "running" /\ route = "audio"
    /\ audio = "call"
    /\ \E ok \in BOOLEAN, txt \in RawTexts, m \in Msgs :
        IF ok THEN processed_text' = txt /\ wpc' = "returned" /\ UNCHANGED excmsg
        ELSE excmsg' = m /\ wpc' = "raised" /\ UNCHANGED processed_text
    /\ SEM_FLASH' = Release(SEM_FLASH, pc, "wait_flash", "granted_flash").sem
    /\ audio' = "done"
    /\ UNCHANGED <<drive, delays, log, SEM_PRO, nfiles, idx, cur, route, total, pc, raw_text, result,
                   final_report, files_processed, total_pages, response,
                   calls1, calls2, proAcquired, returned2, stage1, stage2, rendered>>

\* the audio transcription call returns or raises; the permit is released
AudioReturn ==
    /\ wpc = "running" /\ route = "audio"
    /\ audio = "call"
    /\ \E ok \in BOOLEAN, txt \in RawTexts, m \in Msgs :
        processed_text' = IF ok THEN txt ELSE <<"[Audio Processing Error]: ", m>>
    /\ SEM_FLASH' = Release(SEM_FLASH, pc, "wait_flash", "granted_flash").sem
    /\ audio' = "done"
    /\ wpc' = "returned"
    /\ UNCHANGED <<drive, delays, log, SEM_PRO, nfiles, idx, cur, route, total, pc, raw_text, result,
                   excmsg, final_report, files_processed, total_pages, response,
                   calls1, calls2, proAcquired, returned2, stage1, stage2, rendered>>

\* ---- webhook -----------------------------------------------------------------
\* the if/elif chain of the dispatcher
Classify(mime, url) ==
    IF Contains("pdf", mime) \/ EndsWith(url, ".pdf") THEN "pdf"
    ELSE IF \E img \in {"image/jpeg", "image/png", "image/jpg"} : Contains(img, mime) THEN "image"
    ELSE IF \E av \in {"audio/", "video/"} : Contains(av, mime) THEN "audio"
    ELSE IF Contains("wordprocessingml", mime) \/ EndsWith(url, ".docx") THEN "docx"
    ELSE IF Contains("text/plain", mime) \/ EndsWith(url, ".txt") THEN "text"
    ELSE "unsupported"

\* f.get('name', 'unknown') of entry i
FileName(i) == ToString(i)

\* the five lines the report starts with
ReportHeader == << <<"=== LEGAL OCR PROCESSING REPORT ===">>,
                   <<"Generated: ", "<time>">>,
                   <<"Instructions: ", "N/A">>,
                   <<"User: ", "N/A", " (", "N/A", ")">>,
                   <<"\n", "====", "\n">> >>

\* the URL of entry i as the report prints it; the dispatcher reads cur.url
UrlText(i) == ToString(i)

FileHeader(i) == << <<"\n=== FILE: ", FileName(i), " ===">>, <<"URL: ", UrlText(i), "\n">> >>

NoTasks == [t \in Tasks |-> "none"]

\* locals of the finished asyncio.run go away
ResetDocument ==
    /\ total' = 0
    /\ pc' = NoTasks
    /\ raw_text' = [t \in Tasks |-> NoText]
    /\ result' = [t \in Tasks |-> NoResult]
    /\ audio' = "none"
    /\ processed_text' = NoText
    /\ excmsg' = ""
    /\ cur' = NoFile
    /\ route' = "none"
    /\ calls1' = [t \in Tasks |-> 0]
    /\ calls2' = [t \in Tasks |-> 0]
    /\ proAcquired' = [t \in Tasks |-> FALSE]
    /\ returned2' = [t \in Tasks |-> NoText]
    /\ stage1' = [t \in Tasks |-> "none"]
    /\ stage2' = [t \in Tasks |-> "none"]
    /\ delays' = [t \in Tasks |-> 0]

DocumentVars == <<total, pc, raw_text, result, audio, processed_text, excmsg,
                  calls1, calls2, proAcquired, returned2, stage1, stage2, delays>>

\* what the batch loop did with one entry: how its iteration ended, the branch
\* the dispatcher took and the number of page images the branch produced
Entry(outcome, branch, pages) == [outcome |-> outcome, route |-> branch, pages |-> pages]

\* `if not data or 'files' not in data`: 400 without any processing; a body
\* without the key has no entries
Validate ==
    /\ wpc = "entry"
    /\ \E hasFiles \in BOOLEAN :
        /\ hasFiles \/ nfiles = 0
        /\ IF hasFiles
           THEN wpc' = "loop" /\ UNCHANGED response
           ELSE /\ wpc' = "done"
                /\ response' = [status |-> 400, error |-> "No files provided"]
    /\ UNCHANGED <<drive, log, SEM_FLASH, SEM_PRO, nfiles, idx, cur, route, DocumentVars, final_report,
                   files_processed, total_pages, rendered>>

\* an entry without url that still gets its section header
SkipEntryReported ==
    /\ wpc = "loop" /\ idx <= nfiles
    /\ final_report' = final_report \o FileHeader(idx)
    /\ idx' = idx + 1
    /\ log' = Append(log, Entry("skipped", "none", 0))
    /\ UNCHANGED <<drive, SEM_FLASH, SEM_PRO, wpc, nfiles, cur, route, DocumentVars,
                   files_processed, total_pages, response, rendered>>

\* an entry without url: continue
SkipEntry ==
    /\ wpc = "loop" /\ idx <= nfiles
    /\ idx' = idx + 1
    /\ log' = Append(log, Entry("skipped", "none", 0))
    /\ UNCHANGED <<drive, SEM_FLASH, SEM_PRO, wpc, nfiles, cur, route, DocumentVars, final_report,
                   files_processed, total_pages, response, rendered>>

\* a failed download that leaves the batch loop
DownloadFailedBreaks ==
    /\ wpc = "loop" /\ idx <= nfiles
    /\ final_report' = final_report \o FileHeader(idx)
                                  \o << <<"[ERROR] Failed to download file\n">> >>
    /\ idx' = nfiles + 1
    /\ log' = Append(log, Entry("download_failed", "none", 0))
    /\ UNCHANGED <<drive, SEM_FLASH, SEM_PRO, wpc, nfiles, cur, route, DocumentVars,
                   files_processed, total_pages, response, rendered>>

\* download_file returned (None, None)
DownloadFailed ==
    /\ wpc = "loop" /\ idx <= nfiles
    /\ final_report' = final_report \o FileHeader(idx)
                                  \o << <<"[ERROR] Failed to download file\n">> >>
    /\ idx' = idx + 1
    /\ log' = Append(log, Entry("download_failed", "none", 0))
    /\ UNCHANGED <<drive, SEM_FLASH, SEM_PRO, wpc, nfiles, cur, route, DocumentVars,
                   files_processed, total_pages, response, rendered>>

\* download_file returned the content and its declared type; the dispatch
\* chain selects its branch
Downloaded ==
    /\ wpc = "loop" /\ idx <= nfiles
    /\ \E url \in Urls, mime \in Mimes :
        /\ final_report' = final_report \o FileHeader(idx)
        /\ cur' = [mime |-> mime, url |-> url]
        /\ route' = Classify(mime, url)
    /\ wpc' = "routed"
    /\ UNCHANGED <<drive, log, SEM_FLASH, SEM_PRO, nfiles, idx, DocumentVars,
                   files_processed, total_pages, response, rendered>>

\* asyncio.run(process_pdf(...)): n pages rendered, one task per page
LaunchPdf ==
    /\ wpc = "routed" /\ route = "pdf"
    /\ \E n \in 0..MaxPages :
        /\ rendered + n <= MaxPipelines
        /\ total' = n
        /\ pc' = [t \in Tasks |-> IF t <= n THEN "created" ELSE "none"]
        /\ rendered' = rendered + n
    /\ wpc' = "running"
    /\ cur' = NoFile
    /\ UNCHANGED <<drive, delays, log, SEM_FLASH, SEM_PRO, nfiles, idx, route, raw_text, result, audio,
                   processed_text, excmsg, final_report, files_processed, total_pages,
                   response, calls1, calls2, proAcquired, returned2, stage1, stage2>>

\* convert_from_bytes raises: the exception reaches the batch loop
PdfRenderFail ==
    /\ wpc = "routed" /\ route = "pdf"
    /\ \E m \in Msgs : excmsg' = m
    /\ wpc' = "raised"
    /\ cur' = NoFile
    /\ UNCHANGED <<drive, delays, log, SEM_FLASH, SEM_PRO, nfiles, idx, route, total, pc, raw_text, result, audio,
                   processed_text, final_report, files_processed, total_pages,
                   response, calls1, calls2, proAcquired, returned2, stage1, stage2, rendered>>

\* asyncio.run(process_image(...)): Image.open succeeded, one pipeline for page 1
LaunchImage ==
    /\ wpc = "routed" /\ route = "image"
    /\ rendered < MaxPipelines
    /\ total' = 1
    /\ pc' = [t \in Tasks |-> IF t = 1 THEN "created" ELSE "none"]
    /\ rendered' = rendered + 1
    /\ wpc' = "running"
    /\ cur' = NoFile
    /\ UNCHANGED <<drive, delays, log, SEM_FLASH, SEM_PRO, nfiles, idx, route, raw_text, result, audio,
                   processed_text, excmsg, final_report, files_processed, total_pages,
                   response, calls1, calls2, proAcquired, returned2, stage1, stage2>>

\* Image.open raises inside process_image
ImageOpenFail ==
    /\ wpc = "routed" /\ route = "image"
    /\ \E m \in Msgs : processed_text' = <<"[Image Processing Error]: ", m>>
    /\ wpc' = "returned"
    /\ cur' = NoFile
    /\ UNCHANGED <<drive, delays, log, SEM_FLASH, SEM_PRO, nfiles, idx, route, total, pc, raw_text, result, audio,
                   excmsg, final_report, files_processed, total_pages,
                   response, calls1, calls2, proAcquired, returned2, stage1, stage2, rendered>>

\* asyncio.run(process_audio(...)) up to the transcription call
LaunchAudio ==
    /\ wpc = "routed" /\ route = "audio"
    /\ LET a == Acquire(SEM_FLASH, 0, idx) IN
        /\ SEM_FLASH' = a.sem
        /\ audio' = IF a.st = "got" THEN "call" ELSE "blocked"
    /\ wpc' = "running"
    /\ cur' = NoFile
    /\ UNCHANGED <<drive, delays, log, SEM_PRO, nfiles, idx, route, total, pc, raw_text, result,
                   processed_text, excmsg, final_report, files_processed, total_pages,
                   response, calls1, calls2, proAcquired, returned2, stage1, stage2, rendered>>

\* texts a word-processor or plain-text file may hold
FileTexts == {<<"affidavit">>}

\* process_docx, the utf-8 decode, or the unsupported marker: no remote call
LocalExtract ==
    /\ wpc = "routed" /\ route \in {"docx", "text", "unsupported"}
    /\ \E txt \in FileTexts, ok \in BOOLEAN, m \in Msgs :
        processed_text' =
            CASE route = "docx" -> IF ok THEN txt ELSE <<"[DOCX Processing Error]: ", m>>
              [] route = "text" -> txt
              [] OTHER -> <<"[UNSUPPORTED FILE TYPE: ">> \o cur.mime \o <<"]">>
    /\ wpc' = "returned"
    /\ cur' = NoFile
    /\ UNCHANGED <<drive, delays, log, SEM_FLASH, SEM_PRO, nfiles, idx, route, total, pc, raw_text, result, audio,
                   excmsg, final_report, files_processed, total_pages,
                   response, calls1, calls2, proAcquired, returned2, stage1, stage2, rendered>>

\* the branch returned: count pages, append the text, count the file
FileDone ==
    /\ wpc = "returned"
    /\ total_pages' = total_pages +
            (CASE route = "pdf" -> Count("--- PAGE", processed_text)
               [] route = "image" -> 1
               [] OTHER -> 0)
    /\ final_report' = Append(final_report, processed_text)
    /\ files_processed' = files_processed + 1
    /\ log' = Append(log, Entry("processed", route, total))
    /\ idx' = idx + 1
    /\ wpc' = "loop"
    /\ ResetDocument
    /\ UNCHANGED <<drive, SEM_FLASH, SEM_PRO, nfiles, response, rendered>>

\* an except clause that counts the file as processed all the same
FileRaisedCounted ==
    /\ wpc = "raised"
    /\ final_report' = Append(final_report, <<"[PROCESSING ERROR]: ", excmsg>>)
    /\ files_processed' = files_processed + 1
    /\ log' = Append(log, Entry("raised", route, total))
    /\ idx' = idx + 1
    /\ wpc' = "loop"
    /\ ResetDocument
    /\ UNCHANGED <<drive, SEM_FLASH, SEM_PRO, nfiles, total_pages, response, rendered>>

\* except Exception in the batch loop
FileRaised ==
    /\ wpc = "raised"
    /\ final_report' = Append(final_report, <<"[PROCESSING ERROR]: ", excmsg>>)
    /\ log' = Append(log, Entry("raised", route, total))
    /\ idx' = idx + 1
    /\ wpc' = "loop"
    /\ ResetDocument
    /\ UNCHANGED <<drive, SEM_FLASH, SEM_PRO, nfiles, files_processed, total_pages, response, rendered>>

None == "None"

\* what save_to_drive may return: the id and the webViewLink of the created
\* file (a field the reply lacks is None), or (None, None) after an exception
DriveResults == {[id |-> "id", link |-> "link"],
                 [id |-> "id", link |-> None],
                 [id |-> None, link |-> None]}

\* the part of the JSON response that does not depend on the upload
Summary ==
    [status |-> 200, message |-> "Processing completed successfully",
     files_processed |-> files_processed, total_pages |-> total_pages]

\* a response that carries the report text whatever the upload returned
RespondAlwaysInline(saved, text) ==
    Summary @@ [drive_link |-> saved.link, drive_file_id |-> saved.id,
                report_text |-> text]

\* `if drive_link:` the link and the file id, else the warning and the text
Respond(saved, text) ==
    IF saved.link # None
    THEN Summary @@ [drive_link |-> saved.link, drive_file_id |-> saved.id]
    ELSE Summary @@ [warning |-> "Drive upload failed, returning text in response",
                     report_text |-> text]

\* "\n".join(final_report), save_to_drive and the JSON response
SaveReport ==
    /\ wpc = "loop" /\ idx > nfiles
    /\ \E saved \in DriveResults :
        /\ drive' = saved
        /\ response' = Respond(saved, JoinLines(final_report))
    /\ wpc' = "done"
    /\ UNCHANGED <<log, SEM_FLASH, SEM_PRO, nfiles, idx, cur, route, DocumentVars, final_report,
                   files_processed, total_pages, rendered>>

\* ---- specification -------------------------------------------------------------
Init ==
    /\ SEM_FLASH = NewSemaphore(FlashCapacity)
    /\ SEM_PRO = NewSemaphore(ProCapacity)
    /\ wpc = "entry"
    /\ nfiles \in 0..MaxFiles
    /\ idx = 1
    /\ cur = NoFile
    /\ route = "none"
    /\ total = 0
    /\ pc = NoTasks
    /\ raw_text = [t \in Tasks |-> NoText]
    /\ result = [t \in Tasks |-> NoResult]
    /\ audio = "none"
    /\ processed_text = NoText
    /\ excmsg = ""
    /\ final_report = ReportHeader
    /\ files_processed = 0
    /\ total_pages = 0
    /\ response = NoResponse
    /\ calls1 = [t \in Tasks |-> 0]
    /\ calls2 = [t \in Tasks |-> 0]
    /\ proAcquired = [t \in Tasks |-> FALSE]
    /\ returned2 = [t \in Tasks |-> NoText]
    /\ stage1 = [t \in Tasks |-> "none"]
    /\ stage2 = [t \in Tasks |-> "none"]
    /\ rendered = 0
    /\ delays = [t \in Tasks |-> 0]
    /\ log = <<>>
    /\ drive = NotSaved

PageStep ==
    \E t \in Tasks :
        \/ StartTask(t)
        \/ ResumeFlash(t)
        \/ Stage1Fail(t)
        \/ Stage1Ok(t)
        \/ ResumePro(t)
        \/ PacingDone(t)
        \/ Stage2Ok(t)
        \/ Stage2Fail(t)

Next ==
    \/ PageStep
    \/ GatherReturn
    \/ GatherRaise
    \/ ImageReturn
    \/ AudioReturn
    \/ Validate
    \/ SkipEntry
    \/ DownloadFailed
    \/ Downloaded
    \/ LaunchPdf
    \/ PdfRenderFail
    \/ LaunchImage
    \/ ImageOpenFail
    \/ LaunchAudio
    \/ LocalExtract
    \/ FileDone
    \/ FileRaised
    \/ SaveReport

Spec == Init /\ [][Next]_vars


\* ---- properties ------------------------------------------------------------------
InFlightFlash == Cardinality({t \in Tasks : pc[t] = "stage1"}) + (IF audio = "call" THEN 1 ELSE 0)

InFlightPro == Cardinality({t \in Tasks : pc[t] = "stage2"})

\* C1: in every reachable state the number of in-flight transcription calls
\* (page Stage 1 calls plus the audio call) is at most the capacity of
\* SEM_FLASH and the number of in-flight correction calls is at most the
\* capacity of SEM_PRO, over all files of the request.
C1_InFlightBounded ==
    /\ InFlightFlash <= FlashCapacity
    /\ InFlightPro <= ProCapacity

\* C1 witness: the transcription limiter is full while another page waits for it
C1_Witness ==
    /\ InFlightFlash = FlashCapacity
    /\ \E t \in Tasks : pc[t] = "wait_flash"

Finished(t) == pc[t] \in {"none", "done", "raised", "cancelled"}

\* C2: once every launched pipeline (and the audio call) has finished, by a
\* normal return, a remote-service error, a fault in the guarded section or a
\* cancellation, both limiters have all their permits back and nobody queued.
C2_PermitsReturned ==
    ((\A t \in Tasks : Finished(t)) /\ audio # "call") =>
        /\ SEM_FLASH.value = FlashCapacity /\ SEM_FLASH.waiters = <<>>
        /\ SEM_PRO.value = ProCapacity /\ SEM_PRO.waiters = <<>>

\* C2 witness: a document whose pipelines all finished, one after a Stage 1
\* failure and one after a Stage 2 failure, before the fan-out returns
C2_Witness ==
    /\ wpc = "running" /\ total >= 2
    /\ \A t \in Tasks : Finished(t)
    /\ \E t \in Tasks : stage1[t] = "failed"
    /\ \E t \in Tasks : stage2[t] = "failed"

\* the section of page i with text txt
ExpectedSection(i, txt) == <<"--- PAGE", ToString(i), " ---\n">> \o txt

\* C3: the text process_pdf returns is, for its N >= 0 pages, the sections of
\* pages 1..N in ascending order, one per page, each with the result of that
\* page's pipeline, whatever the order in which the pipelines finished.
C3_SectionsInPageOrder ==
    (wpc = "returned" /\ route = "pdf") =>
        processed_text = JoinLines([i \in 1..total |-> ExpectedSection(i, result[i][2])])

\* C3 witness: a returned document with more pages than SEM_FLASH has permits
C3_Witness ==
    /\ wpc = "returned" /\ route = "pdf"
    /\ total > FlashCapacity

\* C4: a page whose Stage 1 failed has the result '[Stage 1 Error]: <message>'
\* under its own page number, never held a correction permit and never issued
\* a correction call.
C4_Stage1FailureSkipsStage2 ==
    \A t \in Tasks : stage1[t] = "failed" =>
        /\ pc[t] = "done"
        /\ \E m \in Msgs : result[t] = <<t, <<"[Stage 1 Error]: ", m>>>>
        /\ ~proAcquired[t]
        /\ calls2[t] = 0
        /\ stage2[t] = "none"

\* C4 witness: a page failed Stage 1 while a sibling is in its correction call
C4_Witness ==
    \E t, u \in Tasks : stage1[t] = "failed" /\ calls1[t] = 1 /\ pc[u] = "stage2"

\* C5: a page whose Stage 1 succeeded and whose Stage 2 failed has a non-empty
\* result that is the raw Stage-1 text followed by the annotation naming the
\* stage-2 error.
C5_Stage2FailureKeepsRaw ==
    \A t \in Tasks : (stage1[t] = "ok" /\ stage2[t] = "failed") =>
        /\ result[t][1] = t
        /\ result[t][2] # <<>>
        /\ SubSeq(result[t][2], 1, Len(raw_text[t])) = raw_text[t]
        /\ \E m \in Msgs :
             SubSeq(result[t][2], Len(raw_text[t]) + 1, Len(result[t][2]))
                = <<"\n[Stage 2 skipped due to error: ", m, "]">>

\* C5 witness: a Stage 2 failure after a non-empty transcription
C5_Witness ==
    \E t \in Tasks : stage1[t] = "ok" /\ stage2[t] = "failed" /\ raw_text[t] # <<>>

\* C6: when every page of a document either failed Stage 1 or succeeded at
\* both stages, the fan-out returns one section per page in page order; a
\* failed page carries '[Stage 1 Error]: <message>' and every other page
\* exactly the text the correction service returned for it.
C6_FailureIsolation ==
    (/\ wpc = "returned" /\ route = "pdf"
     /\ \A t \in 1..total : stage1[t] = "failed" \/ stage2[t] = "ok") =>
        \E ms \in [1..total -> Msgs] :
            processed_text = JoinLines([i \in 1..total |->
                ExpectedSection(i, IF stage1[i] = "failed"
                                   THEN <<"[Stage 1 Error]: ", ms[i]>>
                                   ELSE returned2[i])])

\* C6 witness: three pages, page 2 failed Stage 1, pages 1 and 3 were corrected
C6_Witness ==
    /\ wpc = "returned" /\ route = "pdf" /\ total = 3
    /\ stage1[2] = "failed" /\ calls1[2] = 1
    /\ stage2[1] = "ok" /\ stage2[3] = "ok"

\* C7 as stated: a pipeline that is over attempted the transcription call
\* exactly once and the correction call at most once, exactly once when
\* Stage 1 succeeded.
C7_ExactlyOnce ==
    \A t \in Tasks : pc[t] = "done" =>
        /\ calls1[t] = 1
        /\ calls2[t] <= 1
        /\ (stage1[t] = "ok" => calls2[t] = 1)

\* C7 amended: no call is ever attempted twice; the transcription call was
\* attempted exactly once for a page whose Stage 1 succeeded; the correction
\* call is attempted only after a successful Stage 1, and a pipeline that
\* returned a result attempted it exactly once when Stage 1 succeeded and not
\* at all otherwise.
C7_AtMostOnce ==
    \A t \in Tasks :
        /\ calls1[t] <= 1
        /\ calls2[t] <= 1
        /\ (stage1[t] = "ok" => calls1[t] = 1)
        /\ (calls2[t] = 1 => stage1[t] = "ok")
        /\ (pc[t] = "done" => (calls2[t] = 1 <=> stage1[t] = "ok"))

\* C7 witness: one pipeline ended without a transcription call (the image
\* could not be re-encoded), another one ended after one call of each stage
C7_Witness ==
    \E t, u \in Tasks :
        /\ pc[t] = "done" /\ calls1[t] = 0
        /\ pc[u] = "done" /\ calls1[u] = 1 /\ calls2[u] = 1 /\ stage2[u] = "failed"

\* C8: process_pdf has returned only when every page pipeline of the document
\* has returned its result: no page is waiting for a permit, in a call or
\* without a result, and there is exactly one result per page.
C8_FanOutWaitsForAll ==
    (wpc = "returned" /\ route = "pdf") =>
        /\ \A t \in 1..total : pc[t] = "done" /\ result[t] # NoResult /\ result[t][1] = t
        /\ \A t \in Tasks : t > total => pc[t] = "none"
        /\ Len(Gathered) = total

\* C8 witness: a returned document one of whose pages had to queue for Stage 2
C8_Witness ==
    /\ wpc = "returned" /\ route = "pdf"
    /\ total > ProCapacity
    /\ \A t \in 1..total : stage2[t] # "none"

\* a page pipeline that is waiting for a permit, holds one, or has returned
Admissible == {"created", "wait_flash", "granted_flash", "stage1", "wait_pro", "granted_pro",
               "pacing", "stage2", "done"}

\* C9 (its safety part): no launched page is ever rejected: a page that
\* finds a limiter full waits for it, is admitted and returns a result, and no
\* fan-out ends with an exception instead of its pages.
C9_NoPageRejected ==
    /\ \A t \in Tasks : t <= total => pc[t] \in Admissible
    /\ ~(wpc = "raised" /\ total > 0)

\* the class the declared content type identifies, "none" if it identifies none
TypeClass(mime) ==
    CASE Contains("pdf", mime) -> "pdf"
      [] \E img \in {"image/jpeg", "image/png", "image/jpg"} : Contains(img, mime) -> "image"
      [] \E av \in {"audio/", "video/"} : Contains(av, mime) -> "audio"
      [] Contains("wordprocessingml", mime) -> "docx"
      [] Contains("text/plain", mime) -> "text"
      [] OTHER -> "none"

\* the class the extension identifies, "none" if it identifies none
ExtClass(url) ==
    CASE EndsWith(url, ".pdf") -> "pdf"
      [] EndsWith(url, ".docx") -> "docx"
      [] EndsWith(url, ".txt") -> "text"
      [] OTHER -> "none"

\* C10: a file whose content type identifies a class takes that class's route
\* whatever its extension, the extension decides only when the content type
\* identifies no class, and a file that matches neither is unsupported.
C10_ContentTypeFirst ==
    wpc = "routed" =>
        route = IF TypeClass(cur.mime) # "none" THEN TypeClass(cur.mime)
                ELSE IF ExtClass(cur.url) # "none" THEN ExtClass(cur.url)
                ELSE "unsupported"

\* the pages a handled batch contributes when each processed PDF counts its
\* rendered page images and each processed image counts once
RECURSIVE RenderedPages(_)
RenderedPages(l) ==
    IF l = <<>> THEN 0
    ELSE LET e == Head(l) IN
         (IF e.outcome # "processed" THEN 0
          ELSE IF e.route = "pdf" THEN e.pages
          ELSE IF e.route = "image" THEN 1
          ELSE 0) + RenderedPages(Tail(l))

\* C11: whatever text the pages contain, total_pages (in the loop and in the
\* response) is the sum of the rendered pages of the processed PDF files plus
\* one per processed image file; every other file contributes 0.
C11_TotalPagesIsRenderedPages ==
    /\ total_pages = RenderedPages(log)
    /\ (wpc = "done" /\ response.status = 200) => response.total_pages = RenderedPages(log)

\* the entries of a handled batch that reached the end of the try block
Processed(l) == SelectSeq(l, LAMBDA e : e.outcome = "processed")

\* the entries of a handled batch that had a URL
WithUrl(l) == SelectSeq(l, LAMBDA e : e.outcome # "skipped")

\* the line the report holds after the two header lines of the k-th entry that had a URL
BodyLine(k) == final_report[Len(ReportHeader) + 3 * k]

\* C12: files_processed (in the loop and in the response) is the number of
\* entries that had a URL, were downloaded and were dispatched without an
\* exception reaching the batch loop; an unsupported file is one of them and
\* its section holds the unsupported-file-type marker; an entry whose download
\* failed or whose processing raised is not counted.
C12_FilesProcessedCount ==
    /\ files_processed = Len(Processed(log))
    /\ (wpc = "done" /\ response.status = 200) =>
            response.files_processed = Len(Processed(log))
    /\ \A k \in 1..Len(WithUrl(log)) :
            WithUrl(log)[k].route = "unsupported" =>
                /\ WithUrl(log)[k].outcome = "processed"
                /\ Head(BodyLine(k)) = "[UNSUPPORTED FILE TYPE: "

\* C12 witness: a finished request whose batch had an unsupported file, which
\* was counted, and a file whose processing raised, which was not
C12_Witness ==
    /\ wpc = "done" /\ response.status = 200
    /\ \E i, j \in 1..Len(log) :
        /\ log[i].route = "unsupported" /\ log[i].outcome = "processed"
        /\ log[j].outcome = "raised"
    /\ response.files_processed = 1

\* while a document is being processed something can happen: a pipeline or
\* the audio call can take its next step, or the branch can return or raise
\* (in every other position of the webhook a step is possible by its guard)
CanStep ==
    \/ \E t \in Tasks : pc[t] \in {"created", "granted_flash", "stage1",
                                     "granted_pro", "pacing", "stage2"}
    \/ audio = "call"
    \/ route = "pdf" /\ (AllDone \/ \E t \in 1..total : pc[t] = "raised")
    \/ route = "image" /\ pc[1] \in {"done", "raised"}

\* C13: a failed download or a processing exception of one file puts its
\* error line into that file's section and the batch loop goes on with the
\* next entry: entries are handled one by one without a gap, the summary
\* response is produced only after every entry of the batch was handled, and
\* no document gets stuck before its branch returns or raises.
C13_FileFailureIsolated ==
    /\ \A k \in 1..Len(WithUrl(log)) :
            LET e == WithUrl(log)[k] IN
            /\ e.outcome = "download_failed" =>
                    BodyLine(k) = <<"[ERROR] Failed to download file\n">>
            /\ e.outcome = "raised" => Head(BodyLine(k)) = "[PROCESSING ERROR]: "
    /\ wpc \in {"loop", "done"} => Len(log) = idx - 1
    /\ (wpc = "done" /\ response.status = 200) => Len(log) = nfiles
    /\ wpc = "running" => CanStep

\* C13 witness: a finished request whose first file raised and whose second
\* file, a PDF with pages, was processed and counted
C13_Witness ==
    /\ wpc = "done" /\ response.status = 200
    /\ Len(log) = 2
    /\ log[1].outcome = "raised"
    /\ log[2] = Entry("processed", "pdf", 2)
    /\ response.files_processed = 1

Has(field) == field \in DOMAIN response

\* C14: a request that got through the batch loop answers with status 200 and
\* the summary; the response carries the full report text exactly when
\* save_to_drive returned no link, and the link with the file id otherwise:
\* never both, never neither.  Only a request without a file list answers
\* otherwise (400, nothing processed).
C14_PersistenceFallback ==
    wpc = "done" =>
        IF drive = NotSaved
        THEN response.status = 400 /\ log = <<>> /\ final_report = ReportHeader
        ELSE /\ response.status = 200
             /\ response.files_processed = files_processed
             /\ response.total_pages = total_pages
             /\ Has("report_text") <=> drive.link = None
             /\ Has("drive_link") <=> drive.link # None
             /\ Has("drive_link") <=> Has("drive_file_id")
             /\ Has("report_text") => response.report_text = JoinLines(final_report)
             /\ Has("drive_link") => /\ response.drive_link = drive.link
                                     /\ response.drive_file_id = drive.id

\* C14 witness: the upload created the file but returned no link, and the
\* response carries the report of a processed file inline
C14_Witness ==
    /\ wpc = "done"
    /\ drive.id # None /\ drive.link = None
    /\ Has("report_text") /\ ~Has("drive_link")
    /\ Len(Processed(log)) > 0
    /\ Len(response.report_text) > Len(JoinLines(ReportHeader))

InFlash == {"granted_flash", "stage1"}

\* positions of a pipeline in which it waits for or holds a permit of SEM_PRO
AtPro == {"wait_pro", "granted_pro", "pacing", "stage2"}

\* C16: every permit missing from SEM_FLASH is held by a pipeline that is in
\* its Stage 1 block (or by the audio call) and every permit missing from
\* SEM_PRO by a pipeline in its Stage 2 block, so a pipeline that waits for
\* or holds a correction permit holds no transcription permit: it gave it
\* back when Stage 1 ended, and a page whose Stage 1 failed never asks for a
\* correction permit.
C16_NeverBothPermits ==
    /\ SEM_FLASH.value + Holders(InFlash) + (IF audio = "call" THEN 1 ELSE 0) = FlashCapacity
    /\ SEM_PRO.value + Holders({"granted_pro", "pacing", "stage2"}) = ProCapacity
    /\ \A t \in Tasks : pc[t] \in AtPro => stage1[t] = "ok" /\ calls1[t] = 1
    /\ \A t \in Tasks : stage1[t] = "failed" => ~proAcquired[t] /\ pc[t] \notin AtPro

\* C16 witness: a pipeline waits for the correction limiter while every
\* transcription permit is free
C16_Witness ==
    /\ \E t \in Tasks : pc[t] = "wait_pro"
    /\ SEM_FLASH.value = FlashCapacity
    /\ SEM_PRO.value = 0

\* positions of a pipeline that was launched and has not finished
InFlight == {"created"} \cup Unfinished

\* C17: the pipelines (or the audio call) of a file exist only while the
\* webhook is inside the asyncio.run of that file: when the run has returned
\* or raised none of them is unfinished, and between two files, before the
\* first and after the last there is no pipeline and no audio call at all and
\* both limiters have all their permits and no waiter.
C17_OneFileAtATime ==
    /\ wpc \in {"returned", "raised"} =>
            /\ \A t \in Tasks : pc[t] \notin InFlight
            /\ audio # "call"
    /\ wpc \in {"entry", "loop", "routed", "done"} =>
            /\ pc = NoTasks /\ audio = "none" /\ total = 0
    /\ wpc # "running" =>
            /\ SEM_FLASH.value = FlashCapacity /\ SEM_FLASH.waiters = <<>>
            /\ SEM_PRO.value = ProCapacity /\ SEM_PRO.waiters = <<>>
    /\ \A t \in Tasks : pc[t] # "none" => t <= total

\* C17 witness: the first file, a PDF with pages, is done and reported, and
\* two pages of the second file are in their transcription calls at once
C17_Witness ==
    /\ idx = 2 /\ wpc = "running"
    /\ log = <<Entry("processed", "pdf", 2)>>
    /\ pc[1] = "stage1" /\ pc[2] = "stage1"

\* C18: an audio or video file makes one transcription call: while the call
\* is in flight it holds one permit of SEM_FLASH, no pipeline exists and
\* SEM_PRO is untouched; when process_audio is over the permit is back, the
\* run has returned (never raised) and the file's text is the transcription
\* or the audio error annotation; no correction permit and no correction call
\* occur for the file, and the batch loop never records an audio file as raised.
C18_AudioSingleGuardedCall ==
    /\ audio # "none" => route = "audio" /\ pc = NoTasks
    /\ audio = "call" =>
            /\ wpc = "running"
            /\ SEM_FLASH.value = FlashCapacity - 1
    /\ audio = "done" =>
            /\ wpc = "returned"
            /\ SEM_FLASH.value = FlashCapacity
            /\ \/ processed_text \in RawTexts
               \/ \E m \in Msgs : processed_text = <<"[Audio Processing Error]: ", m>>
    /\ route = "audio" =>
            /\ wpc # "raised" /\ audio # "blocked"
            /\ SEM_PRO.value = ProCapacity /\ SEM_PRO.waiters = <<>>
            /\ \A t \in Tasks : calls2[t] = 0 /\ ~proAcquired[t] /\ calls1[t] = 0
    /\ \A i \in 1..Len(log) : log[i].route = "audio" => log[i] = Entry("processed", "audio", 0)

\* C18 witness: the audio call of the second file failed after the first file
\* had bound SEM_FLASH to its own event loop; the permit is back and the text
\* is the error annotation
C18_Witness ==
    /\ idx = 2 /\ audio = "done"
    /\ SEM_FLASH.loop = 1
    /\ SEM_FLASH.value = FlashCapacity
    /\ Head(processed_text) = "[Audio Processing Error]: "

\* C19: a pipeline that waits for SEM_PRO has neither slept nor called; once
\* it holds the permit it sleeps once and only then issues its one correction
\* call, and it holds the permit (counted in SEM_PRO) from before the sleep
\* until the call is over; a page that returned after being admitted slept
\* once and called once, a page that never was admitted did neither.
C19_PacingInsidePermit ==
    /\ \A t \in Tasks :
        /\ delays[t] <= 1 /\ calls2[t] <= delays[t]
        /\ delays[t] = 1 => proAcquired[t]
        /\ pc[t] \in {"wait_pro", "granted_pro"} =>
                ~proAcquired[t] /\ delays[t] = 0 /\ calls2[t] = 0
        /\ pc[t] = "pacing" => proAcquired[t] /\ delays[t] = 1 /\ calls2[t] = 0
        /\ pc[t] = "stage2" => proAcquired[t] /\ delays[t] = 1 /\ calls2[t] = 1
        /\ pc[t] = "done" =>
                /\ proAcquired[t] <=> stage2[t] \in {"ok", "failed"}
                /\ delays[t] = (IF proAcquired[t] THEN 1 ELSE 0)
                /\ calls2[t] = delays[t]
    /\ SEM_PRO.value + Holders({"granted_pro", "pacing", "stage2"}) = ProCapacity

\* C19 witness: one page is in its correction call after its sleep while
\* another page still waits for the permit and has not slept
C19_Witness ==
    \E t, u \in Tasks :
        /\ pc[t] = "stage2" /\ delays[t] = 1
        /\ pc[u] = "wait_pro" /\ delays[u] = 0

\* batch positions of the handled entries that had a URL, in batch order
UrlIndices == SelectSeq([i \in 1..Len(log) |-> i], LAMBDA i : log[i].outcome # "skipped")

\* the webhook is between the header of the current entry and its body line
InEntry == wpc \in {"routed", "running", "returned", "raised"}

\* pages the batch loop counted for the sections 1..k of the report
RECURSIVE CountedPages(_)
CountedPages(k) ==
    IF k = 0 THEN 0
    ELSE LET e == log[UrlIndices[k]] IN
         (IF e.outcome # "processed" THEN 0
          ELSE IF e.route = "pdf" THEN Count("--- PAGE", BodyLine(k))
          ELSE IF e.route = "image" THEN 1
          ELSE 0) + CountedPages(k - 1)

\* C20: after its five header lines the report consists of one section of
\* three lines (the two header lines and the body line) per handled entry
\* that had a URL, in batch order and named after the entry, plus the two
\* header lines of the entry being processed; an entry without a URL leaves
\* no line in the report and contributes nothing to files_processed and
\* total_pages.
C20_SectionsInBatchOrder ==
    /\ Len(final_report) = Len(ReportHeader) + 3 * Len(UrlIndices) + (IF InEntry THEN 2 ELSE 0)
    /\ SubSeq(final_report, 1, Len(ReportHeader)) = ReportHeader
    /\ \A k \in 1..Len(UrlIndices) :
            SubSeq(final_report, Len(ReportHeader) + 3 * k - 2, Len(ReportHeader) + 3 * k - 1)
                = FileHeader(UrlIndices[k])
    /\ InEntry => SubSeq(final_report, Len(final_report) - 1, Len(final_report)) = FileHeader(idx)
    /\ Cardinality({n \in 1..Len(final_report) :
                        final_report[n] # <<>> /\ Head(final_report[n]) = "\n=== FILE: "})
            = Len(UrlIndices) + (IF InEntry THEN 1 ELSE 0)
    /\ files_processed = Cardinality({k \in 1..Len(UrlIndices) : log[UrlIndices[k]].outcome = "processed"})
    /\ total_pages = CountedPages(Len(UrlIndices))

\* C20 witness: a finished request whose first entry had no URL and whose
\* second entry was processed: the report has the one section of entry 2
C20_Witness ==
    /\ wpc = "done" /\ response.status = 200
    /\ Len(log) = 2
    /\ log[1].outcome = "skipped" /\ log[2].outcome = "processed"
    /\ UrlIndices = <<2>>
    /\ Len(final_report) = Len(ReportHeader) + 3
    /\ files_processed = 1

====
